---- MODULE Spec2Model ----
(***************************************************************************)
(* A model of great_expectations' MetricStore / EvaluationParameterStore   *)
(* (data_context/store/metric_store.py) and of the rule-based profiler's   *)
(* Domain value type (rule_based_profiler/types/domain.py).                *)
(*                                                                         *)
(* Python values are tagged records (field t names the Python type), JSON  *)
(* texts are token trees (field j names the JSON production), so that      *)
(* json.dumps / json.loads are conversions between two different types.    *)
(***************************************************************************)
EXTENDS Integers, Sequences, FiniteSets, TLC

VARIABLES
    backend,        \* the store backend's contents: <<[key, text]>> in insertion order
    written,        \* per key, the value most recently accepted by set (or Unwritten)
    ret,            \* the record of the last store call: arguments, result, error
    store_cls,      \* the class being constructed / constructed
    ctor,           \* the constructor call: its arguments as passed, and what it left
    store_backend,  \* the caller's store_backend dictionary (one shared object), or None
    config_top,     \* EvaluationParameterStore._config: the top-level dict object
    snapshot,       \* the value of config right after construction
    phase,          \* "new" before the constructor ran, "built" after
    domains,        \* the Domain objects built so far, by slot
    dres            \* the record of the last Domain call

vars == <<backend, written, ret, store_cls, ctor, store_backend,
          config_top, snapshot, phase, domains, dres>>

store_vars == <<backend, written, ret>>
ctor_vars == <<store_cls, ctor, store_backend, config_top, snapshot, phase>>
domain_vars == <<domains, dres>>

----------------------------------------------------------------------------
(* Bounds *)

\* The number of keys the backend holds at most.
MaxStored == 2

----------------------------------------------------------------------------
(* Python values *)

PyNone == [t |-> "none"]
PyBool(b) == [t |-> "bool", b |-> b]
PyInt(n) == [t |-> "int", n |-> n]
PyStr(s) == [t |-> "str", s |-> s]
PyList(xs) == [t |-> "list", items |-> xs]
PyTuple(xs) == [t |-> "tuple", items |-> xs]
\* A dict: its entries [k, v] in insertion order, the keys pairwise different.
PyDict(ps) == [t |-> "dict", pairs |-> ps]
\* An object json cannot encode (an open binary file handle).
PyHandle == [t |-> "handle"]
Pair(k, v) == [k |-> k, v |-> v]

\* Python's ==, on the values of the model: sequences compare elementwise
\* and by type (a tuple never equals a list), dicts as mappings, whatever
\* the insertion order.
RECURSIVE PyEq(_, _)
PyEq(a, b) ==
    IF a.t # b.t THEN FALSE
    ELSE CASE a.t \in {"list", "tuple"} ->
                /\ Len(a.items) = Len(b.items)
                /\ \A i \in 1..Len(a.items) : PyEq(a.items[i], b.items[i])
           [] a.t = "dict" ->
                /\ Len(a.pairs) = Len(b.pairs)
                /\ \A i \in 1..Len(a.pairs) : \E j \in 1..Len(b.pairs) :
                      /\ a.pairs[i].k = b.pairs[j].k
                      /\ PyEq(a.pairs[i].v, b.pairs[j].v)
           [] OTHER -> a = b

\* Python's truth value of an object.
Truthy(v) ==
    CASE v.t = "none" -> FALSE
      [] v.t = "bool" -> v.b
      [] v.t = "int" -> v.n # 0
      [] v.t = "str" -> v.s # ""
      [] v.t \in {"list", "tuple"} -> Len(v.items) > 0
      [] v.t = "dict" -> Len(v.pairs) > 0
      [] OTHER -> TRUE

\* dict lookups
HasKey(d, k) == \E i \in 1..Len(d.pairs) : d.pairs[i].k = k
DictGet(d, k) == d.pairs[CHOOSE i \in 1..Len(d.pairs) : d.pairs[i].k = k].v
\* d[k] = v: an existing key keeps its place, a new one goes last.
DictSet(d, k, v) ==
    IF HasKey(d, k)
    THEN PyDict([i \in 1..Len(d.pairs) |->
                    IF d.pairs[i].k = k THEN Pair(k, v) ELSE d.pairs[i]])
    ELSE PyDict(Append(d.pairs, Pair(k, v)))

\* The entries of a sequence of [k, v, keep] whose keep flag is set, as pairs.
RECURSIVE Kept(_)
Kept(ps) ==
    IF ps = <<>> THEN <<>>
    ELSE IF Head(ps).keep THEN <<Pair(Head(ps).k, Head(ps).v)>> \o Kept(Tail(ps))
         ELSE Kept(Tail(ps))

----------------------------------------------------------------------------
(* JSON texts *)

JNull == [j |-> "null"]
JBool(b) == [j |-> "bool", b |-> b]
JNum(n) == [j |-> "number", n |-> n]
JStr(s) == [j |-> "string", s |-> s]
JArr(xs) == [j |-> "array", items |-> xs]
\* An object: its members [name, val] in the order they are written.
JObj(ms) == [j |-> "object", members |-> ms]
Member(n, x) == [name |-> n, val |-> x]

\* str(n) for the integers of the model.
Digits == <<"0", "1", "2", "3", "4", "5", "6", "7", "8", "9">>
IntStr(n) == Digits[n + 1]

\* json.dumps accepts str, int, bool and None as dict keys and writes each
\* as a string.
json_key_ok(k) == k.t \in {"str", "int", "bool", "none"}
json_key(k) ==
    CASE k.t = "str" -> k.s
      [] k.t = "int" -> IntStr(k.n)
      [] k.t = "bool" -> IF k.b THEN "true" ELSE "false"
      [] OTHER -> "null"

\* Whether json.dumps(v) returns (it raises TypeError otherwise).
RECURSIVE Dumpable(_)
Dumpable(v) ==
    CASE v.t \in {"none", "bool", "int", "str"} -> TRUE
      [] v.t \in {"list", "tuple"} ->
            \A i \in 1..Len(v.items) : Dumpable(v.items[i])
      [] v.t = "dict" ->
            \A i \in 1..Len(v.pairs) :
                json_key_ok(v.pairs[i].k) /\ Dumpable(v.pairs[i].v)
      [] OTHER -> FALSE

\* json.dumps(v), for a v it accepts: lists and tuples both become arrays,
\* dict keys become strings.
RECURSIVE json_dumps(_)
json_dumps(v) ==
    CASE v.t = "none" -> JNull
      [] v.t = "bool" -> JBool(v.b)
      [] v.t = "int" -> JNum(v.n)
      [] v.t = "str" -> JStr(v.s)
      [] v.t \in {"list", "tuple"} ->
            JArr([i \in 1..Len(v.items) |-> json_dumps(v.items[i])])
      [] OTHER ->
            JObj([i \in 1..Len(v.pairs) |->
                    Member(json_key(v.pairs[i].k), json_dumps(v.pairs[i].v))])

\* The dict json.loads builds from an object's members: a name that occurs
\* again keeps its first place and takes the later value.
RECURSIVE json_loads(_)
json_loads(x) ==
    CASE x.j = "null" -> PyNone
      [] x.j = "bool" -> PyBool(x.b)
      [] x.j = "number" -> PyInt(x.n)
      [] x.j = "string" -> PyStr(x.s)
      [] x.j = "array" ->
            PyList([i \in 1..Len(x.items) |-> json_loads(x.items[i])])
      [] OTHER ->
            LET ms == x.members
                n == Len(ms)
                first(i) == \A h \in 1..(i - 1) : ms[h].name # ms[i].name
                last(i) == CHOOSE h \in i..n :
                              /\ ms[h].name = ms[i].name
                              /\ \A g \in (h + 1)..n : ms[g].name # ms[i].name
                all == [i \in 1..n |->
                          [k |-> PyStr(ms[i].name), v |-> json_loads(ms[last(i)].val),
                           keep |-> first(i)]]
            IN PyDict(Kept(all))

----------------------------------------------------------------------------
(* Store keys *)

\* The key columns of a metric record, the order of a key's tuple.
key_columns == <<"run_name", "run_time", "data_asset_name",
                 "expectation_suite_identifier", "metric_name", "metric_kwargs_id">>

\* The ValidationMetricIdentifiers of the model: two runs; in run1 two keys
\* that differ in the data asset alone and one of another metric.
MetricKey(run, asset, metric) ==
    [run_name |-> run, run_time |-> "t0", data_asset_name |-> asset,
     expectation_suite_identifier |-> "suite", metric_name |-> metric,
     metric_kwargs_id |-> "__"]
Keys == {MetricKey("run1", "asset1", "m1"), MetricKey("run1", "asset2", "m1"),
         MetricKey("run1", "asset1", "m2"), MetricKey("run2", "asset1", "m1")}
\* The RunIdentifiers: run_id.to_tuple() is (run_name, run_time).
RunIds == {<<"run1", "t0">>, <<"run2", "t0">>, <<"run3", "t0">>}

key_to_tuple(key) == [i \in 1..Len(key_columns) |-> key[key_columns[i]]]
tuple_to_key(tup) ==
    [c \in {key_columns[i] : i \in 1..Len(key_columns)} |->
        tup[CHOOSE i \in 1..Len(key_columns) : key_columns[i] = c]]

\* key.to_evaluation_parameter_urn(): the suite and the metric (and the
\* metric kwargs id when there is one), neither the run nor the data asset.
to_evaluation_parameter_urn(key) ==
    [t |-> "urn", suite |-> key.expectation_suite_identifier,
     metric_name |-> key.metric_name, metric_kwargs_id |-> key.metric_kwargs_id]

----------------------------------------------------------------------------
(* The store backend (in memory): <<[key, text]>> in insertion order *)

\* What the backend gives for a key it does not hold.
NoRaw == [j |-> "absent"]

backend_has(b, tup) == \E i \in 1..Len(b) : b[i].key = tup
backend_get(b, tup) ==
    IF backend_has(b, tup)
    THEN b[CHOOSE i \in 1..Len(b) : b[i].key = tup].text
    ELSE NoRaw
backend_set(b, tup, text) ==
    IF backend_has(b, tup)
    THEN [i \in 1..Len(b) |-> IF b[i].key = tup THEN [key |-> tup, text |-> text] ELSE b[i]]
    ELSE Append(b, [key |-> tup, text |-> text])
\* list_keys(prefix): the keys that start with prefix, in the backend's order.
RECURSIVE backend_list_keys(_, _)
backend_list_keys(b, prefix) ==
    IF b = <<>> THEN <<>>
    ELSE (IF SubSeq(Head(b).key, 1, Len(prefix)) = prefix THEN <<Head(b).key>> ELSE <<>>)
            \o backend_list_keys(Tail(b), prefix)

----------------------------------------------------------------------------
(* MetricStore *)

\* ensure_json_serializable(value): raises for a value JSON cannot hold.
ensure_json_serializable(value) ==
    IF Dumpable(value) THEN "none" ELSE "InvalidExpectationConfigurationError"

\* A _validate_value that checks nothing.
validate_value_unchecked(value) == "none"

\* MetricStore._validate_value: the error it raises, "none" when it returns.
_validate_value(value) == ensure_json_serializable(value)

\* MetricStore.serialize: json.dumps({"value": value}).
serialize(key, value) == json_dumps(PyDict(<<Pair(PyStr("value"), value)>>))

\* A deserialize that returns the whole envelope.
deserialize_envelope(key, value) ==
    IF value # NoRaw THEN json_loads(value) ELSE PyNone

\* MetricStore.deserialize: the payload of a non-empty text, else None.
deserialize(key, value) ==
    IF value # NoRaw THEN DictGet(json_loads(value), PyStr("value")) ELSE PyNone

\* Store.get(key)
Store_get(b, key) == deserialize(key, backend_get(b, key_to_tuple(key)))

\* A get_bind_params that lists every key of the backend, whatever its run.
get_bind_params_all_runs(b, run_id) ==
    LET ks == backend_list_keys(b, <<>>)
        bind[n \in 0..Len(ks)] ==
            IF n = 0 THEN PyDict(<<>>)
            ELSE LET key == tuple_to_key(ks[n])
                 IN DictSet(bind[n - 1], to_evaluation_parameter_urn(key), Store_get(b, key))
    IN bind[Len(ks)]

\* EvaluationParameterStore.get_bind_params: params[urn(key)] = get(key) for
\* each key the backend lists under the run, in that order.
get_bind_params(b, run_id) ==
    LET ks == backend_list_keys(b, run_id)
        bind[n \in 0..Len(ks)] ==
            IF n = 0 THEN PyDict(<<>>)
            ELSE LET key == tuple_to_key(ks[n])
                 IN DictSet(bind[n - 1], to_evaluation_parameter_urn(key), Store_get(b, key))
    IN bind[Len(ks)]

\* The values offered to set: JSON's own kinds, a tuple, dicts with keys that
\* are not strings, and values that hold an object json cannot encode.
MetricValues ==
    { PyInt(1),
      PyList(<<PyInt(1), PyStr("a")>>),
      PyTuple(<<PyInt(1), PyStr("a")>>),
      PyDict(<<Pair(PyStr("x"), PyInt(1))>>),
      PyDict(<<Pair(PyInt(1), PyStr("a"))>>),
      PyHandle,
      PyList(<<PyInt(1), PyHandle>>) }

Unwritten == [t |-> "unwritten"]
NoKey == [run_name |-> "", run_time |-> "", data_asset_name |-> "",
          expectation_suite_identifier |-> "", metric_name |-> "",
          metric_kwargs_id |-> ""]
\* The record of a store call; before is the backend's contents when a call
\* that raised was made.
Call(op, key, run, value, err, result, before) ==
    [op |-> op, key |-> key, run |-> run, value |-> value, err |-> err,
     result |-> result, before |-> before]

StoreInit ==
    /\ backend = <<>>
    /\ written = [k \in Keys |-> Unwritten]
    /\ ret = Call("new", NoKey, <<>>, PyNone, "none", PyNone, <<>>)

\* Store.set(key, value): the value is validated, then serialized, then
\* handed to the backend.
Set(key, value) ==
    /\ backend_has(backend, key_to_tuple(key)) \/ Len(backend) < MaxStored
    /\ LET verr == _validate_value(value)
           err == IF verr # "none" THEN verr
                  ELSE IF ~Dumpable(value) THEN "TypeError" ELSE "none"
       IN /\ ret' = Call("set", key, <<>>, value, err, PyNone,
                         IF err = "none" THEN <<>> ELSE backend)
          /\ IF err = "none"
             THEN /\ backend' = backend_set(backend, key_to_tuple(key), serialize(key, value))
                  /\ written' = [written EXCEPT ![key] = value]
             ELSE UNCHANGED <<backend, written>>
    /\ UNCHANGED <<ctor_vars, domain_vars>>

\* Store.get(key)
Get(key) ==
    /\ ret' = Call("get", key, <<>>, PyNone, "none", Store_get(backend, key), <<>>)
    /\ UNCHANGED <<backend, written, ctor_vars, domain_vars>>

\* EvaluationParameterStore.get_bind_params(run_id)
GetBindParams(run_id) ==
    /\ ret' = Call("get_bind_params", NoKey, run_id, PyNone, "none",
                   get_bind_params(backend, run_id), <<>>)
    /\ UNCHANGED <<backend, written, ctor_vars, domain_vars>>

----------------------------------------------------------------------------
(* Construction of the stores *)

\* load_class(class_name, module_name): the store backend classes there are.
BackendClasses == {"InMemoryStoreBackend", "DatabaseStoreBackend"}
\* issubclass(store_backend_class, DatabaseStoreBackend)
IsDatabaseStoreBackend(class_name) == class_name = "DatabaseStoreBackend"

\* dict.get(k, default)
DictGetDefault(d, k, default) == IF HasKey(d, k) THEN DictGet(d, k) ELSE default

default_key_columns == PyList([i \in 1..Len(key_columns) |-> PyStr(key_columns[i])])

\* filter_properties_dict(properties, clean_falsy=True) with its defaults:
\* the top-level entries that are None, or falsy and not a number, are removed.
filter_properties_dict(d) ==
    PyDict(Kept([i \in 1..Len(d.pairs) |->
        [k |-> d.pairs[i].k, v |-> d.pairs[i].v,
         keep |-> d.pairs[i].v.t # "none"
                    /\ (d.pairs[i].v.t \in {"int", "bool"} \/ Truthy(d.pairs[i].v))]]))

\* The class the constructor resolves from store_backend.
backend_class_name(sb) ==
    DictGetDefault(sb, PyStr("class_name"), PyStr("InMemoryStoreBackend")).s

\* MetricStore.__init__, up to the call of Store.__init__: the store_backend
\* dictionary as it leaves it.
MetricStore_init(sb) ==
    IF sb.t = "none" THEN sb
    ELSE IF IsDatabaseStoreBackend(backend_class_name(sb))
         THEN LET sb1 == IF ~HasKey(sb, PyStr("table_name"))
                         THEN DictSet(sb, PyStr("table_name"),
                                      DictGetDefault(sb, PyStr("table_name"), PyStr("ge_metrics")))
                         ELSE sb
              IN IF ~HasKey(sb1, PyStr("key_columns"))
                 THEN DictSet(sb1, PyStr("key_columns"),
                              DictGetDefault(sb1, PyStr("key_columns"), default_key_columns))
                 ELSE sb1
         ELSE sb

\* An EvaluationParameterStore.__init__ without a default of its own.
EvaluationParameterStore_init_no_default(sb) == MetricStore_init(sb)

\* EvaluationParameterStore.__init__, up to the call of Store.__init__.
EvaluationParameterStore_init(sb) ==
    IF sb.t = "none" THEN MetricStore_init(sb)
    ELSE IF IsDatabaseStoreBackend(backend_class_name(sb))
         THEN MetricStore_init(
                 DictSet(sb, PyStr("table_name"),
                         DictGetDefault(sb, PyStr("table_name"),
                                        PyStr("ge_evaluation_parameters"))))
         ELSE MetricStore_init(sb)

\* The reference to the caller's store_backend dictionary that _config holds.
Ref == [t |-> "ref"]
\* The value of a dict that holds references, read now.
Resolve(d, sb) ==
    PyDict([i \in 1..Len(d.pairs) |->
        IF d.pairs[i].v = Ref THEN Pair(d.pairs[i].k, sb) ELSE d.pairs[i]])

\* EvaluationParameterStore.__init__, its end: the _config dictionary, whose
\* store_backend entry is the caller's dictionary itself.
make_config(sb, name) ==
    LET kept == filter_properties_dict(PyDict(<<
                    Pair(PyStr("store_backend"), sb),
                    Pair(PyStr("store_name"), name),
                    Pair(PyStr("module_name"),
                         PyStr("great_expectations.data_context.store.metric_store")),
                    Pair(PyStr("class_name"), PyStr("EvaluationParameterStore"))>>))
    IN PyDict([i \in 1..Len(kept.pairs) |->
            IF kept.pairs[i].k = PyStr("store_backend")
            THEN Pair(kept.pairs[i].k, Ref) ELSE kept.pairs[i]])

\* The config property: self._config.
config == Resolve(config_top, store_backend)

\* The store_backend arguments of the model: None, or a dictionary with or
\* without each of class_name, table_name and key_columns.
OptionalEntry(k, vs) == {<<>>} \cup {<<Pair(PyStr(k), v)>> : v \in vs}
BackendArgs ==
    {PyNone} \cup
    { PyDict(c \o tn \o kc) :
        c \in OptionalEntry("class_name", {PyStr("InMemoryStoreBackend"),
                                           PyStr("DatabaseStoreBackend"),
                                           PyStr("NoSuchBackend")}),
        tn \in OptionalEntry("table_name", {PyStr("my_table")}),
        kc \in OptionalEntry("key_columns", {PyList(<<PyStr("k1")>>)}) }
NameArgs == {PyNone, PyStr("my_store")}

NoConfig == PyDict(<<>>)

CtorInit ==
    /\ store_cls \in {"MetricStore", "EvaluationParameterStore"}
    /\ store_backend \in BackendArgs
    /\ \E name \in NameArgs :
          ctor = [store_backend |-> store_backend, store_name |-> name,
                  built_backend |-> PyNone]
    /\ config_top = NoConfig
    /\ snapshot = NoConfig
    /\ phase = "new"

\* The constructor of store_cls runs.
Construct ==
    /\ phase = "new"
    /\ IF store_backend.t = "dict" /\ backend_class_name(store_backend) \notin BackendClasses
       THEN \* load_class raises: no store
            /\ phase' = "failed"
            /\ UNCHANGED <<store_backend, ctor, config_top, snapshot>>
       ELSE LET sb == IF store_cls = "EvaluationParameterStore"
                      THEN EvaluationParameterStore_init(store_backend)
                      ELSE MetricStore_init(store_backend)
                cfg == IF store_cls = "EvaluationParameterStore"
                       THEN make_config(sb, ctor.store_name)
                       ELSE NoConfig
            IN /\ store_backend' = sb
               /\ ctor' = [ctor EXCEPT !.built_backend = sb]
               /\ config_top' = cfg
               /\ snapshot' = Resolve(cfg, sb)
               /\ phase' = "built"
    /\ UNCHANGED <<store_cls, store_vars, domain_vars>>

MutableFields == {"table_name", "credentials"}
\* The caller changes the dictionary it passed as store_backend.
CallerSetsBackendField(f) ==
    /\ phase = "built"
    /\ store_backend.t = "dict"
    /\ store_backend' = DictSet(store_backend, PyStr(f), PyStr("changed"))
    /\ UNCHANGED <<store_cls, ctor, config_top, snapshot, phase, store_vars, domain_vars>>

\* store.config[f] = "changed": a change to the mapping config returned.
ConfigSetsField(f) ==
    /\ phase = "built"
    /\ store_cls = "EvaluationParameterStore"
    /\ config_top' = DictSet(config_top, PyStr(f), PyStr("changed"))
    /\ UNCHANGED <<store_cls, ctor, store_backend, snapshot, phase, store_vars, domain_vars>>

\* store.config["store_backend"][f] = "changed"
ConfigSetsBackendField(f) ==
    /\ phase = "built"
    /\ store_cls = "EvaluationParameterStore"
    /\ HasKey(config_top, PyStr("store_backend"))
    /\ DictGet(config_top, PyStr("store_backend")) = Ref
    /\ store_backend' = DictSet(store_backend, PyStr(f), PyStr("changed"))
    /\ UNCHANGED <<store_cls, ctor, config_top, snapshot, phase, store_vars, domain_vars>>

----------------------------------------------------------------------------
(* Enumerations *)

PyEnum(cls, name) == [t |-> "enum", cls |-> cls, name |-> name]

\* MetricDomainTypes: the kinds of metric domain, name and value.
MetricDomainTypes ==
    <<[name |-> "TABLE", value |-> "table"],
      [name |-> "COLUMN", value |-> "column"],
      [name |-> "COLUMN_PAIR", value |-> "column_pair"],
      [name |-> "MULTICOLUMN", value |-> "multicolumn"]>>

SemanticDomainTypes ==
    <<[name |-> "NUMERIC", value |-> "numeric"],
      [name |-> "TEXT", value |-> "text"],
      [name |-> "LOGIC", value |-> "logic"],
      [name |-> "DATETIME", value |-> "datetime"],
      [name |-> "BINARY", value |-> "binary"],
      [name |-> "CURRENCY", value |-> "currency"],
      [name |-> "IDENTIFIER", value |-> "identifier"],
      [name |-> "MISCELLANEOUS", value |-> "miscellaneous"],
      [name |-> "UNKNOWN", value |-> "unknown"]>>

EnumMembers(cls) ==
    IF cls = "MetricDomainTypes" THEN MetricDomainTypes ELSE SemanticDomainTypes

\* An exception: its class, who raised it, and whether its message names
\* the offending value and the type of the offending value.
Exc(cls, by, names_value, names_type) ==
    [exc |-> cls, by |-> by, names_value |-> names_value, names_type |-> names_type]
NoExc == Exc("none", "", FALSE, FALSE)

\* cls(value), the lookup of a member by value: Enum raises
\* ValueError("<value> is not a valid <cls>") when there is none.
Enum_call(cls, value) ==
    LET ms == EnumMembers(cls)
    IN IF \E i \in 1..Len(ms) : ms[i].value = value
       THEN [exc |-> NoExc,
             member |-> PyEnum(cls, ms[CHOOSE i \in 1..Len(ms) : ms[i].value = value].name)]
       ELSE [exc |-> Exc("ValueError", "Enum", TRUE, FALSE), member |-> PyNone]

\* member.value
Enum_value(e) ==
    LET ms == EnumMembers(e.cls)
    IN ms[CHOOSE i \in 1..Len(ms) : ms[i].name = e.name].value

\* str.lower(), on the strings of the model.
LowerTable ==
    <<<<"NUMERIC", "numeric">>, <<"Numeric", "numeric">>, <<"Text", "text">>,
      <<"TEXT", "text">>>>
lower(s) ==
    IF \E i \in 1..Len(LowerTable) : LowerTable[i][1] = s
    THEN LowerTable[CHOOSE i \in 1..Len(LowerTable) : LowerTable[i][1] = s][2]
    ELSE s

----------------------------------------------------------------------------
(* Helpers of Domain *)

INFERRED_SEMANTIC_TYPE_KEY == "inferred_semantic_domain_type"

\* deep_filter_properties_iterable(properties, inplace=True): None entries and
\* the entries left empty are removed, at every level.
RECURSIVE deep_filter_properties_iterable(_)
deep_filter_properties_iterable(v) ==
    IF v.t = "dict"
    THEN PyDict(Kept([i \in 1..Len(v.pairs) |->
            LET c == deep_filter_properties_iterable(v.pairs[i].v)
            IN [k |-> v.pairs[i].k, v |-> c,
                keep |-> c.t # "none"
                           /\ ~(c.t \in {"dict"} /\ Len(c.pairs) = 0)
                           /\ ~(c.t \in {"list", "tuple"} /\ Len(c.items) = 0)]]))
    ELSE IF v.t \in {"list", "tuple"}
    THEN [v EXCEPT !.items = [i \in 1..Len(v.items) |->
                                 deep_filter_properties_iterable(v.items[i])]]
    ELSE v

\* convert_to_json_serializable(data): dict keys become strings, tuples lists.
RECURSIVE convert_to_json_serializable(_)
convert_to_json_serializable(v) ==
    IF v.t = "dict"
    THEN PyDict([i \in 1..Len(v.pairs) |->
            Pair(PyStr(json_key(v.pairs[i].k)),
                 convert_to_json_serializable(v.pairs[i].v))])
    ELSE IF v.t \in {"list", "tuple"}
    THEN PyList([i \in 1..Len(v.items) |-> convert_to_json_serializable(v.items[i])])
    ELSE v

\* The names used as dict keys, in the order sort_keys gives them.
KeyOrder ==
    <<"age", "column", "details", "domain_kwargs", "domain_type", "filter",
      "inferred_semantic_domain_type", "note", "row_condition", "rule_name",
      "x", "y">>
Rank(name) == CHOOSE i \in 1..Len(KeyOrder) : KeyOrder[i] = name

\* The members of an object sorted by name.
RECURSIVE SortMembers(_)
SortMembers(ms) ==
    IF ms = <<>> THEN <<>>
    ELSE LET m == CHOOSE i \in 1..Len(ms) :
                     \A h \in 1..Len(ms) : Rank(ms[i].name) <= Rank(ms[h].name)
         IN <<ms[m]>> \o SortMembers(SubSeq(ms, 1, m - 1) \o SubSeq(ms, m + 1, Len(ms)))

\* json.dumps(v, sort_keys=True): every object's members sorted by name.
RECURSIVE SortKeys(_)
SortKeys(x) ==
    IF x.j = "object"
    THEN JObj(SortMembers([i \in 1..Len(x.members) |->
                 Member(x.members[i].name, SortKeys(x.members[i].val))]))
    ELSE IF x.j = "array"
    THEN JArr([i \in 1..Len(x.items) |-> SortKeys(x.items[i])])
    ELSE x

\* IDDict(d).to_id(): the digest of the canonical JSON text of d (the digest
\* is taken to have no collisions).
IDDict_to_id(d) ==
    [md5 |-> SortKeys(json_dumps(convert_to_json_serializable(d)))]

----------------------------------------------------------------------------
(* Domain *)

NoDomain == [built |-> FALSE]
\* A Domain: its four entries, and (given) the domain_kwargs argument it was
\* built from, as the caller wrote it.
DomainObject(rule_name, domain_type, domain_kwargs, details, given) ==
    [built |-> TRUE, rule_name |-> rule_name, domain_type |-> domain_type,
     domain_kwargs |-> domain_kwargs, details |-> details, given |-> given]

\* Domain._convert_dictionaries_to_domain_kwargs: a dict is deep-filtered and
\* wrapped as DomainKwargs (a dict), and so are the dicts it holds.
RECURSIVE _convert_dictionaries_to_domain_kwargs(_)
_convert_dictionaries_to_domain_kwargs(source) ==
    IF source.t = "dict"
    THEN LET cleaned == deep_filter_properties_iterable(source)
         IN PyDict([i \in 1..Len(cleaned.pairs) |->
                Pair(cleaned.pairs[i].k,
                     _convert_dictionaries_to_domain_kwargs(cleaned.pairs[i].v))])
    ELSE source

\* Domain.__init__: the exception it raises, or the Domain it builds.
Domain_init(rule_name, domain_type, domain_kwargs, details) ==
    LET build(dt) ==
            [exc |-> NoExc,
             obj |-> DomainObject(
                        rule_name, dt,
                        _convert_dictionaries_to_domain_kwargs(
                            IF domain_kwargs.t = "none" THEN PyDict(<<>>) ELSE domain_kwargs),
                        IF details.t = "none" THEN PyDict(<<>>) ELSE details,
                        domain_kwargs)]
        raise(e) == [exc |-> e, obj |-> NoDomain]
    IN IF domain_type.t = "str"
       THEN LET r == Enum_call("MetricDomainTypes", domain_type.s)
            IN IF r.exc = NoExc THEN build(r.member)
               ELSE IF r.exc.exc \in {"TypeError", "KeyError"}
                    THEN raise(Exc("ValueError", "Domain.__init__", TRUE, TRUE))
                    ELSE raise(r.exc)
       ELSE IF ~(domain_type.t = "enum" /\ domain_type.cls = "MetricDomainTypes")
            THEN raise(Exc("ValueError", "Domain.__init__", TRUE, TRUE))
            ELSE build(domain_type)

\* What a call gives: the exception it raises, or its value.
Raise(e) == [exc |-> e, val |-> PyNone]
Return(v) == [exc |-> NoExc, val |-> v]
\* The first exception of a sequence of outcomes, NoExc when there is none.
FirstExc(rs) ==
    IF \E i \in 1..Len(rs) : rs[i].exc # NoExc
    THEN rs[CHOOSE i \in 1..Len(rs) :
                rs[i].exc # NoExc /\ \A h \in 1..(i - 1) : rs[h].exc = NoExc].exc
    ELSE NoExc

\* .value of the member an Enum lookup gave.
member_value(r) == IF r.exc = NoExc THEN Return(PyStr(Enum_value(r.member))) ELSE Raise(r.exc)

\* A normalization that looks the string up as it is written.
semantic_type_value_as_written(semantic_type) ==
    IF semantic_type.t = "str"
    THEN member_value(Enum_call("SemanticDomainTypes", semantic_type.s))
    ELSE IF semantic_type.t = "enum"
    THEN Return(PyStr(Enum_value(semantic_type)))
    ELSE Raise(Exc("AttributeError", "to_json_dict", FALSE, FALSE))

\* Domain.to_json_dict, the value it gives one column's semantic type:
\* SemanticDomainTypes(semantic_type.lower()).value for a string, else
\* semantic_type.value.
semantic_type_value(semantic_type) ==
    IF semantic_type.t = "str"
    THEN member_value(Enum_call("SemanticDomainTypes", lower(semantic_type.s)))
    ELSE IF semantic_type.t = "enum"
    THEN Return(PyStr(Enum_value(semantic_type)))
    ELSE Raise(Exc("AttributeError", "to_json_dict", FALSE, FALSE))

\* The dict of the keys of ps with the values of the outcomes rs, or the
\* first exception among rs.
collect(ps, rs) ==
    IF FirstExc(rs) # NoExc THEN Raise(FirstExc(rs))
    ELSE Return(PyDict([i \in 1..Len(ps) |-> Pair(ps[i].k, rs[i].val)]))

\* Domain.to_json_dict, the dict comprehension over one column-to-type
\* mapping.
normalize_semantic_types(value) ==
    IF value.t # "dict"
    THEN Raise(Exc("AttributeError", "to_json_dict", FALSE, FALSE))
    ELSE collect(value.pairs,
                 [c \in 1..Len(value.pairs) |-> semantic_type_value(value.pairs[c].v)])

\* convert_to_json_serializable of an outcome's value.
converted(r) == IF r.exc = NoExc THEN Return(convert_to_json_serializable(r.val)) ELSE r

\* Domain.to_json_dict, its loop over details.
details_to_json(details) ==
    collect(details.pairs,
            [i \in 1..Len(details.pairs) |->
                converted(IF /\ Truthy(details.pairs[i].v)
                             /\ details.pairs[i].k = PyStr(INFERRED_SEMANTIC_TYPE_KEY)
                          THEN normalize_semantic_types(details.pairs[i].v)
                          ELSE Return(details.pairs[i].v))])

\* Domain.to_json_dict, its json_dict.
json_dict(d, details) ==
    PyDict(<<Pair(PyStr("rule_name"), d.rule_name),
             Pair(PyStr("domain_type"), PyStr(Enum_value(d.domain_type))),
             Pair(PyStr("domain_kwargs"), convert_to_json_serializable(d.domain_kwargs)),
             Pair(PyStr("details"), details)>>)

unfiltered(d, det) == IF det.exc # NoExc THEN det ELSE Return(json_dict(d, det.val))
filtered(d, det) ==
    IF det.exc # NoExc THEN det ELSE Return(filter_properties_dict(json_dict(d, det.val)))

\* A to_json_dict that returns json_dict as it is built.
Domain_to_json_dict_unfiltered(d) == unfiltered(d, details_to_json(d.details))

\* Domain.to_json_dict
Domain_to_json_dict(d) == filtered(d, details_to_json(d.details))

without_details(jd) ==
    PyDict(Kept([i \in 1..Len(jd.pairs) |->
        [k |-> jd.pairs[i].k, v |-> jd.pairs[i].v,
         keep |-> jd.pairs[i].k # PyStr("details")]]))
dumped(jd) == IF jd.exc # NoExc THEN jd ELSE Return(json_dumps(jd.val))
dumped_no_details(jd) ==
    IF jd.exc # NoExc THEN jd ELSE Return(json_dumps(without_details(jd.val)))

\* A __repr__ that leaves the details out.
Domain_repr_no_details(d) == dumped_no_details(Domain_to_json_dict(d))

\* Domain.__repr__: json.dumps(self.to_json_dict(), indent=2), the JSON text.
Domain_repr(d) == dumped(Domain_to_json_dict(d))

\* Domain.__str__
Domain_str(d) == Domain_repr(d)

digest(jd) == IF jd.exc # NoExc THEN jd ELSE Return(IDDict_to_id(jd.val))
digest_unsorted(jd) ==
    IF jd.exc # NoExc THEN jd
    ELSE Return([md5 |-> json_dumps(convert_to_json_serializable(jd.val))])

\* An id that digests the JSON text in insertion order.
Domain_id_unsorted(d) == digest_unsorted(Domain_to_json_dict(d))

\* Domain.id: IDDict(self.to_json_dict()).to_id()
Domain_id(d) == digest(Domain_to_json_dict(d))

hashed(id) == IF id.exc # NoExc THEN id ELSE Return([hash |-> id.val])
\* Domain.__hash__: hash(self.id)
Domain_hash(d) == hashed(Domain_id(d))

\* The Domain as the plain dict it is, for the second disjunct of __eq__.
Domain_as_dict(d) ==
    PyDict(<<Pair(PyStr("rule_name"), d.rule_name),
             Pair(PyStr("domain_type"), d.domain_type),
             Pair(PyStr("domain_kwargs"), d.domain_kwargs),
             Pair(PyStr("details"), d.details)>>)

\* The three disjuncts of Domain.__eq__ for another Domain, given both
\* to_json_dict() results, both strings and the other as a dict.
by_json_dict(a, b) == PyEq(a.val, b.val)
by_dict(a, other) == PyEq(filter_properties_dict(a.val), filter_properties_dict(other))
by_str(sa, sb) == sa.val = sb.val
eq_disjuncts(a, b, other, sa, sb) ==
    IF a.exc # NoExc THEN Raise(a.exc)
    ELSE IF b.exc # NoExc THEN Raise(b.exc)
    ELSE Return(by_json_dict(a, b) \/ by_dict(a, other) \/ by_str(sa, sb))

\* The third disjunct of Domain.__eq__ alone: self.__str__() == str(other).
eq_by_str(self, other) == by_str(Domain_str(self), Domain_str(other))

\* Domain.__eq__(self, other), other None or a Domain.
Domain_eq(self, other) ==
    IF other = PyNone THEN Return(FALSE)
    ELSE eq_disjuncts(Domain_to_json_dict(self), Domain_to_json_dict(other),
                      Domain_as_dict(other), Domain_str(self), Domain_str(other))

----------------------------------------------------------------------------
(* The calls on Domains *)

Slots == {"a", "b"}

RuleNames == {PyStr("r1"), PyStr("")}
DomainTypeArgs ==
    { PyStr("column"), PyEnum("MetricDomainTypes", "COLUMN"),
      PyStr("not_a_type"), PyInt(7), PyEnum("SemanticDomainTypes", "NUMERIC") }
ColumnAge == Pair(PyStr("column"), PyStr("age"))
DomainKwargsArgs ==
    { PyNone,
      PyDict(<<ColumnAge>>),
      PyDict(<<ColumnAge,
               Pair(PyStr("filter"), PyDict(<<Pair(PyStr("x"), PyInt(1)),
                                              Pair(PyStr("y"), PyInt(2))>>))>>),
      PyDict(<<Pair(PyStr("filter"), PyDict(<<Pair(PyStr("y"), PyInt(2)),
                                              Pair(PyStr("x"), PyInt(1))>>)),
               ColumnAge>>),
      PyDict(<<ColumnAge, Pair(PyStr("row_condition"), PyNone)>>),
      PyDict(<<Pair(PyStr("row_condition"), PyNone)>>) }
Inferred(st) ==
    Pair(PyStr(INFERRED_SEMANTIC_TYPE_KEY), PyDict(<<Pair(PyStr("age"), st)>>))
DetailsArgs ==
    { PyNone,
      PyDict(<<>>),
      PyDict(<<Inferred(PyStr("NUMERIC"))>>),
      PyDict(<<Inferred(PyEnum("SemanticDomainTypes", "NUMERIC"))>>),
      PyDict(<<Inferred(PyStr("Text"))>>),
      PyDict(<<Pair(PyStr("note"), PyStr("NUMERIC"))>>),
      PyDict(<<Inferred(PyStr("bogus"))>>) }

\* The record of a call: for a constructor call, the domain_type it was given.
DomainCall(op, slot, other, domain_type, exc, val) ==
    [op |-> op, slot |-> slot, other |-> other, domain_type |-> domain_type,
     exc |-> exc, val |-> val]

DomainInit ==
    /\ domains = [s \in Slots |-> NoDomain]
    /\ dres = DomainCall("none", "", "", PyNone, NoExc, PyNone)

\* Domain(rule_name, domain_type, domain_kwargs, details), kept in slot s.
NewDomain(s) ==
    /\ ~domains[s].built
    /\ \E rule_name \in RuleNames, domain_type \in DomainTypeArgs,
          domain_kwargs \in DomainKwargsArgs, details \in DetailsArgs :
          LET r == Domain_init(rule_name, domain_type, domain_kwargs, details)
          IN /\ dres' = DomainCall("new", s, "", domain_type, r.exc, PyNone)
             /\ domains' = [domains EXCEPT ![s] = r.obj]
    /\ UNCHANGED <<store_vars, ctor_vars>>

PureCall(op, s, other, r) ==
    /\ dres' = DomainCall(op, s, other, PyNone, r.exc,
                          IF r.exc = NoExc THEN r.val ELSE PyNone)
    /\ UNCHANGED <<domains, store_vars, ctor_vars>>

ToJsonDict(s) == domains[s].built /\ PureCall("to_json_dict", s, "", Domain_to_json_dict(domains[s]))
Id(s) == domains[s].built /\ PureCall("id", s, "", Domain_id(domains[s]))
Hash(s) == domains[s].built /\ PureCall("hash", s, "", Domain_hash(domains[s]))
Str(s) == domains[s].built /\ PureCall("str", s, "", Domain_str(domains[s]))
\* domains[s] == domains[o]
Eq(s, o) ==
    /\ domains[s].built /\ domains[o].built
    /\ PureCall("eq", s, o, Domain_eq(domains[s], domains[o]))
\* domains[s] == None
EqNone(s) == domains[s].built /\ PureCall("eq", s, "none", Domain_eq(domains[s], PyNone))

----------------------------------------------------------------------------
(* Specifications *)

StoreIdle ==
    /\ backend = <<>>
    /\ written = [k \in Keys |-> Unwritten]
    /\ ret = Call("new", NoKey, <<>>, PyNone, "none", PyNone, <<>>)
CtorIdle ==
    /\ store_cls = "EvaluationParameterStore"
    /\ store_backend = PyNone
    /\ ctor = [store_backend |-> PyNone, store_name |-> PyNone, built_backend |-> PyNone]
    /\ config_top = NoConfig
    /\ snapshot = NoConfig
    /\ phase = "built"
DomainIdle ==
    /\ domains = [s \in Slots |-> NoDomain]
    /\ dres = DomainCall("none", "", "", PyNone, NoExc, PyNone)

StoreNext ==
    \/ \E key \in Keys, value \in MetricValues : Set(key, value)
    \/ \E key \in Keys : Get(key)
    \/ \E run_id \in RunIds : GetBindParams(run_id)

CtorNext ==
    \/ Construct
    \/ \E f \in MutableFields : CallerSetsBackendField(f)
    \/ \E f \in {"store_name", "store_backend"} : ConfigSetsField(f)
    \/ \E f \in MutableFields : ConfigSetsBackendField(f)

DomainNext ==
    \/ \E s \in Slots : NewDomain(s)
    \/ \E s \in Slots : ToJsonDict(s)
    \/ \E s \in Slots : Id(s)
    \/ \E s \in Slots : Hash(s)
    \/ \E s \in Slots : Str(s)
    \/ \E s \in Slots, o \in Slots : Eq(s, o)
    \/ \E s \in Slots : EqNone(s)

InitStore == StoreInit /\ CtorIdle /\ DomainIdle
InitCtor == CtorInit /\ StoreIdle /\ DomainIdle
InitDomain == DomainInit /\ StoreIdle /\ CtorIdle

\* The operations of a MetricStore / EvaluationParameterStore in use.
SpecStore == InitStore /\ [][StoreNext]_vars
\* The construction of a store, and what its caller does afterwards.
SpecCtor == InitCtor /\ [][CtorNext]_vars
\* The construction of Domains and the calls on them.
SpecDomain == InitDomain /\ [][DomainNext]_vars

----------------------------------------------------------------------------
(* Properties of the stores *)

\* A value made of JSON's own kinds only: None, booleans, integers, strings,
\* lists, and dicts whose keys are strings.
RECURSIVE JsonNative(_)
JsonNative(v) ==
    CASE v.t \in {"none", "bool", "int", "str"} -> TRUE
      [] v.t = "list" -> \A i \in 1..Len(v.items) : JsonNative(v.items[i])
      [] v.t = "dict" -> \A i \in 1..Len(v.pairs) :
                            v.pairs[i].k.t = "str" /\ JsonNative(v.pairs[i].v)
      [] OTHER -> FALSE

\* The value as JSON reads it: a tuple as a list, a dict key as a string.
RECURSIVE AsJson(_)
AsJson(v) ==
    CASE v.t \in {"list", "tuple"} -> PyList([i \in 1..Len(v.items) |-> AsJson(v.items[i])])
      [] v.t = "dict" ->
            PyDict([i \in 1..Len(v.pairs) |->
                Pair(IF v.pairs[i].k.t = "int" THEN PyStr(IntStr(v.pairs[i].k.n))
                     ELSE v.pairs[i].k,
                     AsJson(v.pairs[i].v))])
      [] OTHER -> v

\* C1, as stated: get(k) after set(k, v) returns a value deep-equal to v, for
\* every value set accepts.
C1_RoundTripEveryValue ==
    (ret.op = "get" /\ written[ret.key] # Unwritten)
        => PyEq(ret.result, written[ret.key])

\* C1, amended: get(k) returns the last value written under k as JSON reads
\* it, which is deep-equal to the value when the value is made of None,
\* booleans, integers, strings, lists and dicts with string keys.
C1_RoundTripJsonValue ==
    (ret.op = "get" /\ written[ret.key] # Unwritten)
        => /\ PyEq(ret.result, AsJson(written[ret.key]))
           /\ JsonNative(written[ret.key]) => PyEq(ret.result, written[ret.key])

C1_Witness ==
    /\ ret.op = "get"
    /\ Len(backend) = 2
    /\ written[ret.key] = PyDict(<<Pair(PyStr("x"), PyInt(1))>>)
    /\ ret.result = written[ret.key]
    /\ \E k \in Keys : k # ret.key /\ written[k] = PyTuple(<<PyInt(1), PyStr("a")>>)

\* C2: a set of a value that is not JSON-serializable fails with the
\* validation error of _validate_value and leaves the backend as it was.
C2_InvalidValueNeverStored ==
    (ret.op = "set" /\ ~Dumpable(ret.value))
        => /\ ret.err = "InvalidExpectationConfigurationError"
           /\ backend = ret.before
           /\ written[ret.key] # ret.value

C2_Witness ==
    /\ ret.op = "set"
    /\ ret.value = PyList(<<PyInt(1), PyHandle>>)
    /\ ret.err = "InvalidExpectationConfigurationError"
    /\ Len(backend) > 0
    /\ backend = ret.before
    /\ written[ret.key] # Unwritten

\* The keys the backend holds under a run, and their places in its order.
PlacesOfRun(run_id) ==
    {i \in 1..Len(backend) :
        backend[i].key[1] = run_id[1] /\ backend[i].key[2] = run_id[2]}
UrnAt(i) == to_evaluation_parameter_urn(tuple_to_key(backend[i].key))

\* C3: get_bind_params(run_id) has exactly the URNs of the keys stored under
\* the run, one entry each, the entry of a URN being what get returns for the
\* last key of the run, in the backend's order, that has the URN; with no URN
\* shared there is one entry per key.
C3_BindParams ==
    ret.op = "get_bind_params" =>
        LET places == PlacesOfRun(ret.run)
            params == ret.result.pairs
        IN /\ {params[n].k : n \in 1..Len(params)} = {UrnAt(i) : i \in places}
           /\ Len(params) = Cardinality({UrnAt(i) : i \in places})
           /\ \A n \in 1..Len(params) :
                \E i \in places :
                    /\ UrnAt(i) = params[n].k
                    /\ \A h \in places : UrnAt(h) = UrnAt(i) => h <= i
                    /\ PyEq(params[n].v, AsJson(written[tuple_to_key(backend[i].key)]))
           /\ (\A i, h \in places : UrnAt(i) = UrnAt(h) => i = h)
                => Len(params) = Cardinality(places)

\* Two keys of one run share a URN and hold different values: the one entry
\* is the value of the later key.
C3_Witness ==
    /\ ret.op = "get_bind_params"
    /\ Cardinality(PlacesOfRun(ret.run)) = 2
    /\ Len(ret.result.pairs) = 1
    /\ ~PyEq(AsJson(written[tuple_to_key(backend[1].key)]),
             AsJson(written[tuple_to_key(backend[2].key)]))
    /\ PyEq(ret.result.pairs[1].v, AsJson(written[tuple_to_key(backend[2].key)]))

\* C4: for a database-backed class the constructor adds table_name (ge_metrics
\* for a MetricStore, ge_evaluation_parameters for an
\* EvaluationParameterStore) and the six key_columns where the caller gave
\* none; what the caller gave stays, and no other backend gets either field.
C4_DefaultsOnlyWhenAbsent ==
    phase = "built" =>
        LET given == ctor.store_backend
            after == ctor.built_backend
        IN IF given.t = "none" THEN after = PyNone
           ELSE LET database ==
                        DictGetDefault(given, PyStr("class_name"), PyNone)
                            = PyStr("DatabaseStoreBackend")
                    table == IF store_cls = "MetricStore" THEN "ge_metrics"
                             ELSE "ge_evaluation_parameters"
                    added == {after.pairs[i].k : i \in 1..Len(after.pairs)}
                                \ {given.pairs[i].k : i \in 1..Len(given.pairs)}
                IN /\ \A i \in 1..Len(given.pairs) :
                        /\ HasKey(after, given.pairs[i].k)
                        /\ DictGet(after, given.pairs[i].k) = given.pairs[i].v
                   /\ IF database
                      THEN /\ HasKey(after, PyStr("table_name"))
                           /\ HasKey(after, PyStr("key_columns"))
                           /\ PyStr("table_name") \in added
                                => DictGet(after, PyStr("table_name")) = PyStr(table)
                           /\ PyStr("key_columns") \in added
                                => DictGet(after, PyStr("key_columns")) =
                                     PyList(<<PyStr("run_name"), PyStr("run_time"),
                                              PyStr("data_asset_name"),
                                              PyStr("expectation_suite_identifier"),
                                              PyStr("metric_name"),
                                              PyStr("metric_kwargs_id")>>)
                           /\ added \subseteq {PyStr("table_name"), PyStr("key_columns")}
                      ELSE added = {}

C4_Witness ==
    /\ phase = "built"
    /\ store_cls = "EvaluationParameterStore"
    /\ ctor.store_backend =
          PyDict(<<Pair(PyStr("class_name"), PyStr("DatabaseStoreBackend")),
                   Pair(PyStr("key_columns"), PyList(<<PyStr("k1")>>))>>)
    /\ DictGet(ctor.built_backend, PyStr("table_name")) = PyStr("ge_evaluation_parameters")
    /\ DictGet(ctor.built_backend, PyStr("key_columns")) = PyList(<<PyStr("k1")>>)

\* C5: whatever is done with the mapping config returned, or with the
\* store_backend dictionary the caller passed, config gives the snapshot
\* taken at construction.
C5_ConfigIsFrozen ==
    (phase = "built" /\ store_cls = "EvaluationParameterStore")
        => PyEq(config, snapshot)

----------------------------------------------------------------------------
(* Properties of Domain *)

\* A domain_type Domain accepts: a MetricDomainTypes member, or a string that
\* is the value of one.
ValidDomainType(dt) ==
    \/ dt.t = "enum" /\ dt.cls = "MetricDomainTypes"
    \/ dt.t = "str" /\ \E i \in 1..Len(MetricDomainTypes) : MetricDomainTypes[i].value = dt.s

\* C6: a constructor call with any other domain_type raises an error whose
\* message names the value and its type, and builds no Domain.
C6_InvalidDomainTypeMessage ==
    (dres.op = "new" /\ ~ValidDomainType(dres.domain_type))
        => /\ dres.exc # NoExc
           /\ dres.exc.names_value
           /\ dres.exc.names_type
           /\ ~domains[dres.slot].built

\* The other slot.
Other(s) == IF s = "a" THEN "b" ELSE "a"

\* Two Domains built from the same rule_name, domain_type and details, and
\* from domain_kwargs that hold the same keys and values at every level.
SameButForOrder(d, e) ==
    /\ d.built /\ e.built
    /\ d.rule_name = e.rule_name
    /\ d.domain_type = e.domain_type
    /\ d.details = e.details
    /\ PyEq(d.given, e.given)

\* C7: such Domains have the same id and the same hash, and each equals the
\* other.
C7_OrderOfKwargsIrrelevant ==
    (/\ dres.op \in {"id", "hash", "eq"}
     /\ dres.exc = NoExc
     /\ SameButForOrder(domains[dres.slot], domains[Other(dres.slot)]))
        => CASE dres.op = "id" -> dres.val = Domain_id(domains[Other(dres.slot)]).val
             [] dres.op = "hash" -> dres.val = Domain_hash(domains[Other(dres.slot)]).val
             [] OTHER -> dres.other = "none" \/ dres.val = TRUE

C7_Witness ==
    /\ dres.op = "id"
    /\ dres.exc = NoExc
    /\ SameButForOrder(domains["a"], domains["b"])
    /\ domains["a"].given # domains["b"].given
    /\ domains["a"].domain_kwargs.pairs[1].k # domains["b"].domain_kwargs.pairs[1].k
    /\ dres.val = Domain_id(domains[Other(dres.slot)]).val

JsonDictKeys == {PyStr("rule_name"), PyStr("domain_type"), PyStr("domain_kwargs"),
                 PyStr("details")}

\* C8: to_json_dict() holds no other key than rule_name, domain_type,
\* domain_kwargs and details and no entry that is empty or None: rule_name
\* as given, domain_type as the enum's value, details only when there are
\* details, domain_kwargs only when the cleaned domain_kwargs are not empty.
C8_JsonDictShape ==
    (dres.op = "to_json_dict" /\ dres.exc = NoExc) =>
        LET d == domains[dres.slot]
            jd == dres.val
        IN /\ {jd.pairs[i].k : i \in 1..Len(jd.pairs)} \subseteq JsonDictKeys
           /\ \A i \in 1..Len(jd.pairs) : Truthy(jd.pairs[i].v)
           /\ HasKey(jd, PyStr("rule_name")) <=> d.rule_name # PyStr("")
           /\ HasKey(jd, PyStr("rule_name")) => DictGet(jd, PyStr("rule_name")) = d.rule_name
           /\ HasKey(jd, PyStr("domain_type"))
           /\ DictGet(jd, PyStr("domain_type")) = PyStr("column")
           /\ HasKey(jd, PyStr("details")) <=> Len(d.details.pairs) > 0
           /\ HasKey(jd, PyStr("domain_kwargs")) <=> Len(d.domain_kwargs.pairs) > 0
           /\ d.given \in {PyNone, PyDict(<<Pair(PyStr("row_condition"), PyNone)>>)}
                => ~HasKey(jd, PyStr("domain_kwargs"))
           /\ HasKey(jd, PyStr("domain_kwargs"))
                => PyEq(DictGet(jd, PyStr("domain_kwargs")), d.domain_kwargs)
           /\ (/\ d.rule_name = PyStr("r1")
               /\ d.given = PyDict(<<Pair(PyStr("column"), PyStr("age"))>>)
               /\ d.details = PyDict(<<>>))
                => jd = PyDict(<<Pair(PyStr("rule_name"), PyStr("r1")),
                                 Pair(PyStr("domain_type"), PyStr("column")),
                                 Pair(PyStr("domain_kwargs"),
                                      PyDict(<<Pair(PyStr("column"), PyStr("age"))>>))>>)

C8_Witness ==
    /\ dres.op = "to_json_dict"
    /\ domains[dres.slot].given = PyDict(<<Pair(PyStr("column"), PyStr("age"))>>)
    /\ domains[dres.slot].details = PyDict(<<>>)
    /\ dres.val = PyDict(<<Pair(PyStr("rule_name"), PyStr("r1")),
                           Pair(PyStr("domain_type"), PyStr("column")),
                           Pair(PyStr("domain_kwargs"),
                                PyDict(<<Pair(PyStr("column"), PyStr("age"))>>))>>)

\* The ways a semantic type is given, and the value canonical JSON has for it.
SemanticTypesGiven ==
    { [given |-> PyStr("NUMERIC"), json |-> PyStr("numeric")],
      [given |-> PyEnum("SemanticDomainTypes", "NUMERIC"), json |-> PyStr("numeric")],
      [given |-> PyStr("Text"), json |-> PyStr("text")] }

\* C9: to_json_dict() gives every column under inferred_semantic_domain_type
\* the SemanticDomainTypes value, for a string in any letter case as for the
\* enum member; a string under another key stays as it is written.
C9_SemanticTypesNormalized ==
    dres.op = "to_json_dict" =>
        LET d == domains[dres.slot]
        IN /\ \A g \in SemanticTypesGiven :
                d.details = PyDict(<<Inferred(g.given)>>)
                    => /\ dres.exc = NoExc
                       /\ DictGet(dres.val, PyStr("details")) = PyDict(<<Inferred(g.json)>>)
           /\ d.details = PyDict(<<Pair(PyStr("note"), PyStr("NUMERIC"))>>)
                => /\ dres.exc = NoExc
                   /\ DictGet(dres.val, PyStr("details")) = d.details

C9_Witness ==
    /\ dres.op = "to_json_dict"
    /\ domains[dres.slot].details = PyDict(<<Inferred(PyStr("NUMERIC"))>>)
    /\ DictGet(DictGet(DictGet(dres.val, PyStr("details")),
                       PyStr(INFERRED_SEMANTIC_TYPE_KEY)), PyStr("age")) = PyStr("numeric")

\* Two Domains that differ in their details only, neither's empty.
DifferInDetailsOnly(d, e) ==
    /\ d.built /\ e.built
    /\ d.rule_name = e.rule_name
    /\ d.domain_type = e.domain_type
    /\ d.given = e.given
    /\ d.details # e.details
    /\ Len(d.details.pairs) > 0 /\ Len(e.details.pairs) > 0

\* C10, as stated: the comparison of the strings comes out the same for two
\* Domains that differ only in their details, whatever they are compared to.
C10_StrIgnoresDetails ==
    (/\ dres.op = "str"
     /\ dres.exc = NoExc
     /\ DifferInDetailsOnly(domains["a"], domains["b"])
     /\ Domain_str(domains[Other(dres.slot)]).exc = NoExc)
        => \A o \in Slots :
              (dres.val = Domain_str(domains[o]).val)
                  = eq_by_str(domains[Other(dres.slot)], domains[o])

\* C10, amended: the string is the canonical JSON text, details included, so
\* for two Domains that differ only in their details the strings are equal
\* exactly when the canonical details are.
C10_StrComparesDetails ==
    (/\ dres.op = "str"
     /\ dres.exc = NoExc
     /\ DifferInDetailsOnly(domains["a"], domains["b"])
     /\ Domain_str(domains[Other(dres.slot)]).exc = NoExc)
        => LET d == domains[dres.slot]
               e == domains[Other(dres.slot)]
           IN (dres.val = Domain_str(e).val)
                <=> (details_to_json(d.details).val = details_to_json(e.details).val)

C10_Witness ==
    /\ dres.op = "str"
    /\ dres.exc = NoExc
    /\ DifferInDetailsOnly(domains["a"], domains["b"])
    /\ domains[dres.slot].details = PyDict(<<Inferred(PyStr("NUMERIC"))>>)
    /\ domains[Other(dres.slot)].details = PyDict(<<Pair(PyStr("note"), PyStr("NUMERIC"))>>)
    /\ dres.val # Domain_str(domains[Other(dres.slot)]).val

====
